---------------------------- MODULE Spec2Model ----------------------------
(***************************************************************************)
(* Model of src/Data.py, the Streamlit "Data & chart Viewer" script.       *)
(*                                                                         *)
(* One run of the script is one render pass: the ticker text is parsed,    *)
(* the date range is checked, every ticker is downloaded in turn, and      *)
(* every entry of the dict `data` is rendered (table, candlestick chart    *)
(* with ATH / ATL lines, CSV text).                                        *)
(*                                                                         *)
(* Representation.  The ticker text and the tickers are sequences of       *)
(* one-character strings, so that split / strip / upper act on characters. *)
(* Column names are strings.  Python's None and "a value" are the          *)
(* sequences <<>> and <<v>>.  A DataFrame is column-major: columns[k] is   *)
(* the label of the k-th column and values[k] its cells.                   *)
(***************************************************************************)
EXTENDS Integers, Sequences, FiniteSets, TLC

VARIABLES
    ticker_input,  \* line 11: the text typed by the user
    start_date,    \* line 18
    end_date,      \* line 19
    tickers,       \* line 12
    pc,            \* position of the script
    idx,           \* position of the running for loop (lines 69, 90)
    data,          \* line 68: dict ticker -> DataFrame, in insertion order
    fetches,       \* the calls made to yf.download, in order
    out,           \* what the script has put on the page, in order
    csvs,          \* the CSV texts produced at lines 179-181, in order
    ath,           \* lines 116 / 135 (module-level name, survives the loop)
    atl,           \* lines 117 / 135
    columns,       \* argument of a direct call of flatten_columns
    flat           \* its result

vars == <<ticker_input, start_date, end_date, tickers, pc, idx, data,
          fetches, out, csvs, ath, atl, columns, flat>>

---------------------------------------------------------------------------
(* Bounds of the model.                                                    *)

MaxInputLen == 3   \* length of ticker_input in a whole render pass
MaxParseLen == 4   \* length of ticker_input when only parsing is explored
MaxDate     == 1   \* dates are 0 .. MaxDate
MaxRows     == 3   \* rows of a table when the extrema are explored
MaxPrice    == 2   \* prices are 1 .. MaxPrice when the extrema are explored
MaxParts    == 2   \* parts of a composite column label

---------------------------------------------------------------------------
(* Python values.                                                          *)

None == <<>>
Some(v) == <<v>>

\* str(x) for x a string or None
PyStr(o) == IF o = None THEN "None" ELSE o[1]

\* Characters of the ticker text.
Whitespace == {" "}
Alphabet == {"a", "B", ",", " "}
LowerCase == {"a", "b", "c", "d", "n", "s", "t", "u"}

\* str.upper() on one character
UpperChar(c) ==
    CASE c = "a" -> "A"
      [] c = "b" -> "B"
      [] c = "c" -> "C"
      [] c = "d" -> "D"
      [] c = "n" -> "N"
      [] c = "s" -> "S"
      [] c = "t" -> "T"
      [] c = "u" -> "U"
      [] OTHER -> c

\* str.upper()
Upper(s) == [i \in 1..Len(s) |-> UpperChar(s[i])]

\* str.lstrip() / str.rstrip() / str.strip()
RECURSIVE LStrip(_)
LStrip(s) ==
    IF s # <<>> /\ Head(s) \in Whitespace THEN LStrip(Tail(s)) ELSE s

RECURSIVE RStrip(_)
RStrip(s) ==
    IF s # <<>> /\ s[Len(s)] \in Whitespace
    THEN RStrip(SubSeq(s, 1, Len(s) - 1))
    ELSE s

\* A strip() that trims the left end only.
StripLeftOnly(s) == LStrip(s)

Strip(s) == RStrip(LStrip(s))

\* str.split(','): the pieces between the commas, empty pieces included
RECURSIVE Split(_)
Split(s) ==
    IF \A i \in 1..Len(s) : s[i] # ","
    THEN <<s>>
    ELSE LET k == CHOOSE i \in 1..Len(s) :
                     s[i] = "," /\ \A j \in 1..(i - 1) : s[j] # ","
         IN  <<SubSeq(s, 1, k - 1)>> \o Split(SubSeq(s, k + 1, Len(s)))

\* line 12: [ticker.strip().upper() for ticker in ... if ticker.strip()]
RECURSIVE StripUpperNonEmpty(_)
StripUpperNonEmpty(toks) ==
    IF toks = <<>> THEN <<>>
    ELSE IF Strip(Head(toks)) # <<>>
         THEN <<Upper(Strip(Head(toks)))>> \o StripUpperNonEmpty(Tail(toks))
         ELSE StripUpperNonEmpty(Tail(toks))

ParseTickersOf(text) == StripUpperNonEmpty(Split(text))

\* The Python string a ticker is, for the f-strings of lines 52-54 and 62.
RECURSIVE Str(_)
Str(s) == IF s = <<>> THEN "" ELSE Head(s) \o Str(Tail(s))

Texts(n) == UNION {[1..k -> Alphabet] : k \in 0..n}

---------------------------------------------------------------------------
(* Column labels and DataFrames.                                           *)

\* A column label: a tuple of parts (a MultiIndex label) or a single value.
\* A part, and a single value, is a string or None.
Tuple(ps) == [tuple |-> TRUE, parts |-> ps]
Flat(o) == [tuple |-> FALSE, parts |-> <<o>>]

\* "_".join(parts)
RECURSIVE Join(_)
Join(ps) ==
    IF ps = <<>> THEN ""
    ELSE IF Len(ps) = 1 THEN ps[1]
    ELSE ps[1] \o "_" \o Join(Tail(ps))

\* A filter that drops None but keeps the empty string.
RECURSIVE NotNoneParts(_)
NotNoneParts(ps) ==
    IF ps = <<>> THEN <<>>
    ELSE IF Head(ps) # None
         THEN <<PyStr(Head(ps))>> \o NotNoneParts(Tail(ps))
         ELSE NotNoneParts(Tail(ps))

\* line 30: [str(c) for c in col if c not in ("", None)]
RECURSIVE NonEmptyParts(_)
NonEmptyParts(ps) ==
    IF ps = <<>> THEN <<>>
    ELSE IF Head(ps) \notin {Some(""), None}
         THEN <<PyStr(Head(ps))>> \o NonEmptyParts(Tail(ps))
         ELSE NonEmptyParts(Tail(ps))

\* lines 29-33: one pass of the loop body of flatten_columns
FlattenLabel(col) ==
    IF col.tuple
    THEN LET parts == NonEmptyParts(col.parts)
         IN  IF parts # <<>> THEN Join(parts) ELSE ""
    ELSE PyStr(col.parts[1])

\* lines 26-34
flatten_columns(cols) == [k \in 1..Len(cols) |-> FlattenLabel(cols[k])]

\* `c in df.columns`
HasCol(df, c) == \E k \in 1..Len(df.columns) : df.columns[k] = c

\* df[c]: the cells of the first column labelled c
Col(df, c) == df.values[CHOOSE k \in 1..Len(df.columns) :
                            df.columns[k] = c
                            /\ \A j \in 1..(k - 1) : df.columns[j] # c]

NRows(df) == IF df.values = <<>> THEN 0 ELSE Len(df.values[1])

\* DataFrame.empty of a downloaded table (line 80)
IsEmpty(raw) == Len(raw.index) = 0 \/ Len(raw.columns) = 0

\* line 38: df.reset_index().  The index becomes the first column; it is
\* labelled with the index name, or "index" when the index has no name, and
\* under MultiIndex columns the label is the tuple (name, "").  (No table of
\* the provider has a column named like its index, or named "index".)
reset_index(raw) ==
    LET name == IF raw.index_name # None THEN raw.index_name[1] ELSE "index"
        label == IF raw.multi THEN Tuple(<<Some(name), Some("")>>)
                 ELSE Flat(Some(name))
    IN  [multi |-> raw.multi,
         columns |-> <<label>> \o raw.columns,
         values |-> <<raw.index>> \o raw.values]

\* line 48: df.rename(columns={'index': 'Date'})
RenameIndexToDate(cols) ==
    [k \in 1..Len(cols) |-> IF cols[k] = "index" THEN "Date" ELSE cols[k]]

\* lines 51-56
CloseCandidates(ticker) ==
    <<"Close" \o "_" \o Str(ticker), "Close",
      "Adj Close" \o "_" \o Str(ticker), "Adj Close">>

\* next((c for c in candidates if c in df.columns), None)
RECURSIVE FirstPresent(_, _)
FirstPresent(df, cands) ==
    IF cands = <<>> THEN None
    ELSE IF HasCol(df, Head(cands)) THEN Some(Head(cands))
    ELSE FirstPresent(df, Tail(cands))

\* lines 37-58
prepare_df_for_plot(raw, ticker) ==
    LET df_reset == reset_index(raw)
        strs == IF df_reset.multi
                THEN flatten_columns(df_reset.columns)
                ELSE [k \in 1..Len(df_reset.columns) |->
                          PyStr(df_reset.columns[k].parts[1])]
        cols == IF (\A k \in 1..Len(strs) : strs[k] # "Date")
                   /\ (\E k \in 1..Len(strs) : strs[k] = "index")
                THEN RenameIndexToDate(strs)
                ELSE strs
        df == [columns |-> cols, values |-> df_reset.values]
    IN  [df |-> df, y_col |-> FirstPresent(df, CloseCandidates(ticker))]

\* A pick_col that looks for the bare field name only.
PickBareOnly(df, base, ticker) == FirstPresent(df, <<base>>)

\* lines 61-65
pick_col(df, base, ticker) ==
    FirstPresent(df, <<base \o "_" \o Str(ticker), base>>)

\* Series.max() / Series.min()
SeriesMax(s) == CHOOSE v \in {s[r] : r \in 1..Len(s)} :
                    \A r \in 1..Len(s) : s[r] <= v

SeriesMin(s) == CHOOSE v \in {s[r] : r \in 1..Len(s)} :
                    \A r \in 1..Len(s) : v <= s[r]

\* An idxmax() that returns the last occurrence of the maximum.
IdxMaxLast(s) == CHOOSE r \in 1..Len(s) :
                     s[r] = SeriesMax(s)
                     /\ \A q \in (r + 1)..Len(s) : s[q] # SeriesMax(s)

\* Series.idxmax() / Series.idxmin() on the RangeIndex reset_index leaves:
\* the row (counted from 1 here) of the first occurrence of the extreme.
IdxMax(s) == CHOOSE r \in 1..Len(s) :
                 s[r] = SeriesMax(s) /\ \A q \in 1..(r - 1) : s[q] # SeriesMax(s)

IdxMin(s) == CHOOSE r \in 1..Len(s) :
                 s[r] = SeriesMin(s) /\ \A q \in 1..(r - 1) : s[q] # SeriesMin(s)

\* lines 179-181: df.to_csv(index=False): the header line, then one line a
\* row, every cell as text.
to_csv(df) ==
    <<df.columns>> \o
    [r \in 1..NRows(df) |->
        [k \in 1..Len(df.columns) |-> ToString(df.values[k][r])]]

---------------------------------------------------------------------------
(* The tables the provider can return.                                     *)

\* One daily bar: its date and its highest and lowest price.
Bar(d, h, l) == [date |-> d, hi |-> h, lo |-> l]

\* The cell of field f in bar b (Open at the low, Close at the high).
FieldValue(f, b) ==
    CASE f = "High" -> b.hi
      [] f = "Low" -> b.lo
      [] f = "Open" -> b.lo
      [] f = "Close" -> b.hi
      [] f = "Adj Close" -> b.hi
      [] OTHER -> 0

FieldCells(f, bars, shift) ==
    [r \in 1..Len(bars) |-> FieldValue(f, bars[r]) + shift]

\* What yf.download(ticker, ..., group_by="column") returns: a DataFrame
\* indexed by date, with one column a field.  Layout "flat" labels a column
\* with the field; "multi" with the tuple (field, ticker); "both" holds, for
\* every field, a column (field, "") and then the column (field, ticker),
\* the unqualified one with other prices (+ 10).
YfTable(ticker, index_name, layout, fields, bars) ==
    LET sym == Str(ticker)
        n == Len(fields)
    IN  [index_name |-> index_name,
         index |-> [r \in 1..Len(bars) |-> bars[r].date],
         multi |-> layout # "flat",
         columns |->
            CASE layout = "flat" ->
                    [k \in 1..n |-> Flat(Some(fields[k]))]
              [] layout = "multi" ->
                    [k \in 1..n |-> Tuple(<<Some(fields[k]), Some(sym)>>)]
              [] OTHER ->
                    [k \in 1..(2 * n) |->
                        IF k % 2 = 1
                        THEN Tuple(<<Some(fields[(k + 1) \div 2]), Some("")>>)
                        ELSE Tuple(<<Some(fields[k \div 2]), Some(sym)>>)],
         values |->
            IF layout \in {"flat", "multi"}
            THEN [k \in 1..n |-> FieldCells(fields[k], bars, 0)]
            ELSE [k \in 1..(2 * n) |->
                    IF k % 2 = 1
                    THEN FieldCells(fields[(k + 1) \div 2], bars, 10)
                    ELSE FieldCells(fields[k \div 2], bars, 0)]]

IndexNames == {Some("Date"), None, Some("Datetime")}
Layouts == {"flat", "multi", "both"}
AllFields == <<"Open", "High", "Low", "Close", "Adj Close">>

\* The sub-lists of AllFields, in its order.
RECURSIVE SubLists(_)
SubLists(fs) ==
    IF fs = <<>> THEN {<<>>}
    ELSE LET rest == SubLists(Tail(fs))
         IN  rest \cup {<<Head(fs)>> \o t : t \in rest}

\* Two series of bars with different extremes, and no bar at all.
BarsA == <<Bar(11, 5, 3), Bar(12, 7, 2)>>
BarsB == <<Bar(11, 9, 8)>>

\* The shapes of table explored in a whole render pass.
Shapes ==
    {<<Some("Date"), "flat", AllFields, BarsA>>,
     <<Some("Date"), "multi", AllFields, BarsB>>,
     <<None, "both", AllFields, BarsA>>,
     <<Some("Date"), "multi", <<"Open", "High", "Close">>, BarsA>>,
     <<Some("Date"), "flat", <<"Open", "High", "Low", "Adj Close">>, BarsB>>,
     <<Some("Datetime"), "flat", AllFields, BarsA>>,
     <<Some("Date"), "flat", AllFields, <<>>>>}

Tables(ticker) ==
    {YfTable(ticker, sh[1], sh[2], sh[3], sh[4]) : sh \in Shapes}

\* The outcomes of one call of yf.download: an exception, None, a table.
FetchResults(ticker) ==
    {[kind |-> "raise", table |-> None], [kind |-> "none", table |-> None]}
    \cup {[kind |-> "table", table |-> Some(t)] : t \in Tables(ticker)}

---------------------------------------------------------------------------
(* The script.                                                             *)

\* Something put on the page: the Streamlit call, the ticker it is about
\* (None outside the loops) and what it shows.
Ev(kind, ticker, arg) == [kind |-> kind, ticker |-> ticker, arg |-> arg]

\* A list of pairs instead of a dict: every assignment adds an entry.
DictAppend(d, key, value) == Append(d, [key |-> key, value |-> value])

\* dict[key] = value: an existing key keeps its place and takes the value,
\* a new key goes last.
DictSet(d, key, value) ==
    IF \E k \in 1..Len(d) : d[k].key = key
    THEN [k \in 1..Len(d) |->
            IF d[k].key = key THEN [key |-> key, value |-> value] ELSE d[k]]
    ELSE Append(d, [key |-> key, value |-> value])

\* list(data.keys())
Keys(d) == [k \in 1..Len(d) |-> d[k].key]

\* all([...]) of column names or None: None and "" are falsy
All(cols) == \A k \in 1..Len(cols) : cols[k] # None /\ cols[k] # Some("")

\* A range check that lets start = end through.
RangeInvertedStrict(s, e) == s > e

\* line 21: pd.to_datetime(start_date) >= pd.to_datetime(end_date)
RangeInverted(s, e) == s >= e

Idle == columns = <<>> /\ flat = <<>>

Init ==
    /\ ticker_input \in Texts(MaxInputLen)
    /\ start_date \in 0..MaxDate
    /\ end_date \in 0..MaxDate
    /\ tickers = <<>>
    /\ pc = "parse"
    /\ idx = 1
    /\ data = <<>>
    /\ fetches = <<>>
    /\ out = <<>>
    /\ csvs = <<>>
    /\ ath = None
    /\ atl = None
    /\ Idle

\* line 12
ParseTickers ==
    /\ pc = "parse"
    /\ tickers' = ParseTickersOf(ticker_input)
    /\ pc' = "validate"
    /\ UNCHANGED <<ticker_input, start_date, end_date, idx, data, fetches,
                   out, csvs, ath, atl, columns, flat>>

\* lines 21-23, then line 68
RangeCheck ==
    /\ pc = "validate"
    /\ IF RangeInverted(start_date, end_date)
       THEN /\ out' = Append(out, Ev("error", None, "range"))
            /\ pc' = "stopped"
       ELSE /\ out' = out
            /\ pc' = "download"
    /\ data' = <<>>
    /\ idx' = 1
    /\ UNCHANGED <<ticker_input, start_date, end_date, tickers, fetches,
                   csvs, ath, atl, columns, flat>>

\* A loop that an exception of yf.download ends.
AfterDownloadAbort(i, r, n) == IF r.kind = "raise" THEN n + 1 ELSE i + 1

\* line 69: the loop goes on to the next ticker whatever the outcome r was;
\* the try / except of lines 70-85 lets no exception of yf.download out.
AfterDownload(i, r, n) == i + 1

\* lines 69-85: one pass of the download loop
Download ==
    /\ pc = "download"
    /\ idx <= Len(tickers)
    /\ LET ticker == tickers[idx]
       IN  \E r \in FetchResults(ticker) :
             /\ fetches' = Append(fetches,
                               [ticker |-> ticker,
                                start |-> start_date,
                                end |-> end_date + 1,
                                result |-> r])
             /\ idx' = AfterDownload(idx, r, Len(tickers))
             /\ IF r.kind = "raise"
                THEN /\ out' = Append(out, Ev("error", Some(ticker), "download"))
                     /\ data' = data
                ELSE IF r.table # None /\ ~IsEmpty(r.table[1])
                THEN /\ data' = DictSet(data, ticker, r.table[1])
                     /\ out' = out
                ELSE /\ out' = Append(out, Ev("warning", Some(ticker), "no data"))
                     /\ data' = data
    /\ UNCHANGED <<ticker_input, start_date, end_date, tickers, pc, csvs,
                   ath, atl, columns, flat>>

\* line 87, after the last ticker
Loaded ==
    /\ pc = "download"
    /\ idx > Len(tickers)
    /\ out' = Append(out, Ev("write", None, Keys(data)))
    /\ pc' = "render"
    /\ idx' = 1
    /\ UNCHANGED <<ticker_input, start_date, end_date, tickers, data,
                   fetches, csvs, ath, atl, columns, flat>>

\* lines 114-135: the values of ath, atl and what the branch shows
Extrema(df_plot, ticker, high_col, low_col) ==
    IF high_col # None /\ low_col # None
    THEN LET highs == Col(df_plot, high_col[1])
             lows == Col(df_plot, low_col[1])
             dates == Col(df_plot, "Date")
         IN  [ath |-> Some(SeriesMax(highs)),
              atl |-> Some(SeriesMin(lows)),
              shown |->
                <<Ev("metric", Some(ticker),
                     [label |-> "All-Time High",
                      value |-> SeriesMax(highs),
                      date |-> dates[IdxMax(highs)]]),
                  Ev("metric", Some(ticker),
                     [label |-> "All-Time Low",
                      value |-> SeriesMin(lows),
                      date |-> dates[IdxMin(lows)]])>>]
    ELSE [ath |-> None,
          atl |-> None,
          shown |-> <<Ev("warning", Some(ticker), "no ATH / ATL")>>]

\* lines 137-174: the figure
Figure(df_plot, ticker, open_col, high_col, low_col, close_col, hi, lo) ==
    [name |-> ticker,
     x |-> Col(df_plot, "Date"),
     open |-> Col(df_plot, open_col[1]),
     high |-> Col(df_plot, high_col[1]),
     low |-> Col(df_plot, low_col[1]),
     close |-> Col(df_plot, close_col[1]),
     hlines |-> IF hi # None /\ lo # None
                THEN <<[y |-> hi[1], text |-> "ATH"],
                       [y |-> lo[1], text |-> "ATL"]>>
                ELSE <<>>]

\* line 106
DateMissing(df_plot) == ~HasCol(df_plot, "Date")

\* A check of Open and Close only.
OhlcIncompleteOpenClose(open_col, high_col, low_col, close_col) ==
    ~All(<<open_col, close_col>>)

\* line 110
OhlcIncomplete(open_col, high_col, low_col, close_col) ==
    ~All(<<open_col, high_col, low_col, close_col>>)

\* line 102
CloseCol(df_plot, ticker) == pick_col(df_plot, "Close", ticker)

\* lines 90-181: one pass of the render loop
Render ==
    /\ pc = "render"
    /\ idx <= Len(data)
    /\ LET ticker == data[idx].key
           stock_data == data[idx].value
           prepared == prepare_df_for_plot(stock_data, ticker)
           df_plot == prepared.df
           open_col == pick_col(df_plot, "Open", ticker)
           high_col == pick_col(df_plot, "High", ticker)
           low_col == pick_col(df_plot, "Low", ticker)
           close_col == CloseCol(df_plot, ticker)
           head == <<Ev("subheader", Some(ticker), "Data"),
                     Ev("dataframe", Some(ticker), df_plot),
                     Ev("subheader", Some(ticker), "Candlestick Chart")>>
       IN  IF DateMissing(df_plot)
           THEN /\ out' = out \o head
                            \o <<Ev("warning", Some(ticker), "no Date")>>
                /\ idx' = idx + 1
                /\ UNCHANGED <<pc, csvs, ath, atl>>
           ELSE IF OhlcIncomplete(open_col, high_col, low_col, close_col)
           THEN /\ out' = out \o head
                            \o <<Ev("warning", Some(ticker), "OHLC incomplete")>>
                /\ idx' = idx + 1
                /\ UNCHANGED <<pc, csvs, ath, atl>>
           ELSE LET ex == Extrema(df_plot, ticker, high_col, low_col)
                IN  /\ ath' = ex.ath
                    /\ atl' = ex.atl
                    /\ IF None \in {open_col, high_col, low_col, close_col}
                       THEN \* df_plot[None] raises KeyError: the run ends
                            /\ out' = out \o head \o ex.shown
                                        \o <<Ev("exception", Some(ticker),
                                                "KeyError")>>
                            /\ pc' = "crashed"
                            /\ UNCHANGED <<idx, csvs>>
                       ELSE /\ out' = out \o head \o ex.shown
                                        \o <<Ev("plotly_chart", Some(ticker),
                                                Figure(df_plot, ticker,
                                                       open_col, high_col,
                                                       low_col, close_col,
                                                       ex.ath, ex.atl))>>
                            /\ csvs' = Append(csvs,
                                              [ticker |-> ticker,
                                               text |-> to_csv(df_plot)])
                            /\ idx' = idx + 1
                            /\ pc' = pc
    /\ UNCHANGED <<ticker_input, start_date, end_date, tickers, data,
                   fetches, columns, flat>>

\* the end of the script
Finish ==
    /\ pc = "render"
    /\ idx > Len(data)
    /\ pc' = "done"
    /\ UNCHANGED <<ticker_input, start_date, end_date, tickers, idx, data,
                   fetches, out, csvs, ath, atl, columns, flat>>

Next == ParseTickers \/ RangeCheck \/ Download \/ Loaded \/ Render \/ Finish

Spec == Init /\ [][Next]_vars

---------------------------------------------------------------------------
(* Parsing alone: every ticker text up to MaxParseLen characters.          *)

InitParse ==
    /\ ticker_input \in Texts(MaxParseLen)
    /\ start_date = 0
    /\ end_date = 1
    /\ tickers = <<>>
    /\ pc = "parse"
    /\ idx = 1
    /\ data = <<>>
    /\ fetches = <<>>
    /\ out = <<>>
    /\ csvs = <<>>
    /\ ath = None
    /\ atl = None
    /\ Idle

NextParse == ParseTickers

SpecParse == InitParse /\ [][NextParse]_vars

---------------------------------------------------------------------------
(* flatten_columns alone: every list of one or two labels.                 *)

Parts == {None, Some(""), Some("Close"), Some("A")}

Labels ==
    {Tuple(ps) : ps \in UNION {[1..k -> Parts] : k \in 0..MaxParts}}
    \cup {Flat(o) : o \in {None, Some(""), Some("Close"), Some("Close_A")}}

InitFlatten ==
    /\ columns \in UNION {[1..k -> Labels] : k \in 1..2}
    /\ flat = <<>>
    /\ pc = "flatten"
    /\ ticker_input = <<>>
    /\ start_date = 0
    /\ end_date = 1
    /\ tickers = <<>>
    /\ idx = 1
    /\ data = <<>>
    /\ fetches = <<>>
    /\ out = <<>>
    /\ csvs = <<>>
    /\ ath = None
    /\ atl = None

\* a call flatten_columns(columns)
Flatten ==
    /\ pc = "flatten"
    /\ flat' = flatten_columns(columns)
    /\ pc' = "flattened"
    /\ UNCHANGED <<ticker_input, start_date, end_date, tickers, idx, data,
                   fetches, out, csvs, ath, atl, columns>>

NextFlatten == Flatten

SpecFlatten == InitFlatten /\ [][NextFlatten]_vars

---------------------------------------------------------------------------
(* The render loop alone, over two downloaded tickers: the first table of  *)
(* any shape, or with any prices; the second one of Shapes.                *)

TickerA == <<"A">>
TickerB == <<"B", "A">>

\* Every series of 1 .. MaxRows bars with prices in 1 .. MaxPrice.
BarSeqs ==
    LET Prices == {p \in (1..MaxPrice) \X (1..MaxPrice) : p[2] <= p[1]}
    IN  UNION {{[r \in 1..n |-> Bar(10 + r, ps[r][1], ps[r][2])] :
                   ps \in [1..n -> Prices]} : n \in 1..MaxRows}

WideTables(ticker) ==
    {YfTable(ticker, i, l, f, BarsA) :
        i \in IndexNames, l \in Layouts, f \in SubLists(AllFields) \ {<<>>}}
    \cup {YfTable(ticker, Some("Date"), l, AllFields, b) :
              l \in {"flat", "multi"}, b \in BarSeqs}

InitRender ==
    \E ta \in WideTables(TickerA) :
    \E tb \in {YfTable(TickerB, sh[1], sh[2], sh[3], sh[4]) :
                 sh \in {x \in Shapes : x[4] = BarsB}} :
        /\ ticker_input = <<"a", ",", "B", "a">>
        /\ start_date = 0
        /\ end_date = 1
        /\ tickers = <<TickerA, TickerB>>
        /\ pc = "render"
        /\ idx = 1
        /\ data = <<[key |-> TickerA, value |-> ta],
                    [key |-> TickerB, value |-> tb]>>
        /\ fetches = <<[ticker |-> TickerA, start |-> 0, end |-> 2,
                        result |-> [kind |-> "table", table |-> Some(ta)]],
                       [ticker |-> TickerB, start |-> 0, end |-> 2,
                        result |-> [kind |-> "table", table |-> Some(tb)]]>>
        /\ out = <<Ev("write", None, <<TickerA, TickerB>>)>>
        /\ csvs = <<>>
        /\ ath = None
        /\ atl = None
        /\ Idle

NextRender == Render \/ Finish

SpecRender == InitRender /\ [][NextRender]_vars

---------------------------------------------------------------------------
(* Properties.                                                             *)

\* The places of ticker_input where a comma-separated token starts, and
\* where the token starting at a ends (a - 1 for an empty token).
TokenStarts(text) ==
    {1} \cup {i + 1 : i \in {j \in 1..Len(text) : text[j] = ","}}
TokenEnd(text, a) ==
    IF \E i \in a..Len(text) : text[i] = ","
    THEN (CHOOSE i \in a..Len(text) :
              text[i] = "," /\ \A j \in a..(i - 1) : text[j] # ",") - 1
    ELSE Len(text)
\* The places of the token starting at a that hold no whitespace.
Solid(text, a) == {i \in a..TokenEnd(text, a) : text[i] \notin Whitespace}
KeptStarts(text) == {a \in TokenStarts(text) : Solid(text, a) # {}}
First(S) == CHOOSE x \in S : \A y \in S : x <= y
Last(S) == CHOOSE x \in S : \A y \in S : y <= x
\* The token starting at a, trimmed and in upper case.
Trimmed(text, a) ==
    LET f == First(Solid(text, a))
        l == Last(Solid(text, a))
    IN  [i \in 1..(l - f + 1) |-> UpperChar(text[f + i - 1])]

ExampleText ==
    <<"b", "t", "c", "-", "u", "s", "d", ",", " ", ",", " ",
      "B", "N", "B", "-", "u", "s", "d">>

\* C7: the parsed tickers are the comma-separated tokens of the text, in
\* order, trimmed and upper-cased, without the tokens that are empty after
\* trimming; no ticker is empty, starts or ends with whitespace, or holds a
\* lower-case letter; "btc-usd, , BNB-usd" gives BTC-USD, BNB-USD.
C7_SymbolParsing ==
    /\ ParseTickersOf(ExampleText) =
           <<<<"B", "T", "C", "-", "U", "S", "D">>,
             <<"B", "N", "B", "-", "U", "S", "D">>>>
    /\ pc = "validate" =>
        /\ Len(tickers) = Cardinality(KeptStarts(ticker_input))
        /\ \A a \in KeptStarts(ticker_input) :
              tickers[Cardinality({b \in KeptStarts(ticker_input) : b <= a})]
                = Trimmed(ticker_input, a)
        /\ \A k \in 1..Len(tickers) :
              /\ tickers[k] # <<>>
              /\ tickers[k][1] \notin Whitespace
              /\ tickers[k][Len(tickers[k])] \notin Whitespace
              /\ \A i \in 1..Len(tickers[k]) :
                    tickers[k][i] \notin LowerCase \cup {","}

\* A text with a token that is dropped, a token with whitespace on both
\* sides and a lower-case letter has been parsed.
C7_Witness ==
    /\ pc = "validate"
    /\ ticker_input = <<" ", "a", " ", ",">>
    /\ tickers = <<<<"A">>>>

\* The sum of the lengths of the strings of ss.
RECURSIVE TotalLen(_)
TotalLen(ss) == IF ss = <<>> THEN 0 ELSE Len(Head(ss)) + TotalLen(Tail(ss))

\* The parts of a tuple label that are neither "" nor None, in order.
Kept(ps) == SelectSeq(ps, LAMBDA o : o # None /\ o # Some(""))

\* C8: a tuple label flattens to its non-empty, non-absent parts joined by
\* single underscores in their order (nothing for an empty part, "" when
\* every part is empty); a flat label is returned as it is; flattening the
\* flattened labels again changes nothing.
C8_Flattening ==
    /\ FlattenLabel(Tuple(<<Some("Close"), Some("BTC-USD")>>)) = "Close_BTC-USD"
    /\ FlattenLabel(Tuple(<<Some(""), Some("")>>)) = ""
    /\ pc = "flattened" =>
        /\ Len(flat) = Len(columns)
        /\ \A k \in 1..Len(columns) :
              LET col == columns[k]
                  kept == Kept(col.parts)
                  n == Len(kept)
              IN  IF col.tuple
                  THEN /\ n = 0 => flat[k] = ""
                       /\ n = 1 => flat[k] = kept[1][1]
                       /\ n = 2 => flat[k] = kept[1][1] \o "_" \o kept[2][1]
                       /\ n = 3 => flat[k] = kept[1][1] \o "_" \o kept[2][1]
                                                \o "_" \o kept[3][1]
                       /\ Len(flat[k]) =
                             TotalLen([i \in 1..n |-> kept[i][1]])
                             + (IF n = 0 THEN 0 ELSE n - 1)
                  ELSE col.parts[1] # None => flat[k] = col.parts[1][1]
        /\ flatten_columns([k \in 1..Len(flat) |-> Flat(Some(flat[k]))]) = flat

\* A list with a tuple label that has an empty part before a non-empty one,
\* and a flat label, has been flattened.
C8_Witness ==
    /\ pc = "flattened"
    /\ Len(columns) = 2
    /\ columns[1] = Tuple(<<Some(""), Some("Close")>>)
    /\ columns[2] = Flat(Some("Close_A"))
    /\ flat = <<"Close", "Close_A">>

\* The places of `out` that hold a call of the given kind for ticker t.
Positions(kind, t) ==
    {k \in 1..Len(out) : out[k].kind = kind /\ out[k].ticker = Some(t)}

\* The fetch f returned a non-empty table.
Succeeded(f) == f.result.kind = "table" /\ ~IsEmpty(f.result.table[1])
FetchesOf(t) == {i \in 1..Len(fetches) : fetches[i].ticker = t}
SuccessesOf(t) == {i \in FetchesOf(t) : Succeeded(fetches[i])}
TableOf(i) == fetches[i].result.table[1]

\* The normalized table of a downloaded table.
Normalized(raw, t) == prepare_df_for_plot(raw, t).df

\* Field f has a column in df for ticker t, qualified or not.
Present(df, f, t) == HasCol(df, f \o "_" \o Str(t)) \/ HasCol(df, f)
Ohlc == {"Open", "High", "Low", "Close"}
Eligible(df, t) == HasCol(df, "Date") /\ \A f \in Ohlc : Present(df, f, t)

\* C1: a raised error or an empty result for one ticker never ends the batch
\* (every ticker is fetched, the script does not crash), and every ticker of
\* which a fetch returned a non-empty table has its normalized table shown.
C1_Isolation ==
    /\ pc # "crashed"
    /\ pc \in {"render", "done"} => Len(fetches) = Len(tickers)
    /\ pc = "done" =>
         \A i \in 1..Len(fetches) :
            Succeeded(fetches[i]) =>
               \E k \in Positions("dataframe", fetches[i].ticker) :
               \E j \in SuccessesOf(fetches[i].ticker) :
                  out[k].arg = Normalized(TableOf(j), fetches[i].ticker)

\* A pass is over in which the first ticker raised and the second, another
\* one, returned a table that is shown.
C1_Witness ==
    /\ pc = "done"
    /\ Len(fetches) = 2
    /\ fetches[1].result.kind = "raise"
    /\ Succeeded(fetches[2])
    /\ fetches[1].ticker # fetches[2].ticker
    /\ Positions("dataframe", fetches[2].ticker) # {}

\* C2: with start >= end the script shows the range error and stops with no
\* fetch, no table, no chart and no CSV; with start < end it goes on to the
\* download loop.
C2_RangeFatal ==
    /\ pc \notin {"parse", "validate"} =>
          (pc = "stopped" <=> start_date >= end_date)
    /\ pc = "stopped" => out = <<Ev("error", None, "range")>>
    /\ start_date >= end_date =>
          /\ fetches = <<>>
          /\ data = <<>>
          /\ csvs = <<>>
          /\ \A k \in 1..Len(out) : out[k].kind = "error"
    /\ (start_date < end_date /\ pc \notin {"parse", "validate"}) =>
          /\ pc \in {"download", "render", "done"}
          /\ \A k \in 1..Len(out) :
                ~(out[k].kind = "error" /\ out[k].ticker = None)

\* The script stopped on start = end with tickers to fetch.
C2_Witness ==
    /\ pc = "stopped"
    /\ start_date = end_date
    /\ tickers # <<>>
    /\ fetches = <<>>

\* The number of places of tickers that hold t.
Occurrences(t) == Cardinality({i \in 1..Len(tickers) : tickers[i] = t})

WarningsOf(t) ==
    SelectSeq(out, LAMBDA e : e.kind = "warning" /\ e.ticker = Some(t))

\* C4: every downloaded ticker has its normalized table shown; its extrema
\* and its chart are shown exactly when the table has a Date column and a
\* column for each of Open, High, Low and Close; otherwise one warning is
\* shown (no Date, or else OHLC incomplete) and the loop goes on.
C4_ChartEligibility ==
    /\ pc # "crashed"
    /\ pc = "done" =>
         \A k \in 1..Len(data) :
            LET t == data[k].key
                df == Normalized(data[k].value, t)
            IN  /\ \E p \in Positions("dataframe", t) : out[p].arg = df
                /\ Eligible(df, t) <=> Positions("plotly_chart", t) # {}
                /\ Eligible(df, t) <=> Positions("metric", t) # {}
                /\ WarningsOf(t) =
                      IF Eligible(df, t) THEN <<>>
                      ELSE IF ~HasCol(df, "Date")
                      THEN <<Ev("warning", Some(t), "no Date")>>
                      ELSE <<Ev("warning", Some(t), "OHLC incomplete")>>

\* A pass is over in which the first ticker had a Date column but no Low
\* column, got a table and no chart, and the second ticker got its chart.
C4_Witness ==
    /\ pc = "done"
    /\ Len(data) = 2
    /\ LET t == data[1].key
           df == Normalized(data[1].value, t)
       IN  /\ HasCol(df, "Date")
           /\ ~Present(df, "Low", t)
           /\ Present(df, "High", t)
           /\ Positions("dataframe", t) # {}
           /\ Positions("plotly_chart", t) = {}
    /\ Positions("plotly_chart", data[2].key) # {}

\* C5 as stated: every downloaded ticker has the CSV text of its normalized
\* table produced, whether or not its chart was skipped.
C5_CsvForEveryTable ==
    pc = "done" =>
       \A k \in 1..Len(data) :
          \E c \in 1..Len(csvs) :
             /\ csvs[c].ticker = data[k].key
             /\ csvs[c].text = to_csv(Normalized(data[k].value, data[k].key))

\* C6 as stated: the Close reference that decides the chart and feeds its
\* Close series is the first present of Close_<ticker>, Close,
\* Adj Close_<ticker>, Adj Close (the y_col of prepare_df_for_plot).
C6_CloseReference ==
    pc = "done" =>
       \A k \in 1..Len(data) :
          LET t == data[k].key
              prepared == prepare_df_for_plot(data[k].value, t)
              df == prepared.df
              charted == Positions("plotly_chart", t) # {}
          IN  /\ charted <=>
                    /\ HasCol(df, "Date")
                    /\ \A f \in {"Open", "High", "Low"} : Present(df, f, t)
                    /\ prepared.y_col # None
              /\ \A p \in Positions("plotly_chart", t) :
                    /\ prepared.y_col # None
                    /\ out[p].arg.close = Col(df, prepared.y_col[1])

\* The column of field f that pick_col resolves for ticker t.
Resolved(df, f, t) ==
    IF HasCol(df, f \o "_" \o Str(t)) THEN Col(df, f \o "_" \o Str(t))
    ELSE Col(df, f)

ExampleFrame ==
    [columns |-> <<"Date", "High", "Low">>,
     values |-> <<<<21, 22, 23, 24>>, <<10, 15, 15, 8>>, <<9, 7, 7, 8>>>>]

\* C9: for a ticker whose extrema are shown, the high value is the maximum
\* of its High column and the high date the Date of the first row holding
\* it; the low value is the minimum of its Low column and the low date the
\* Date of the first row holding it.  High 10, 15, 15, 8 on d1 .. d4 gives
\* 15 on d2.
C9_Extrema ==
    /\ LET ex == Extrema(ExampleFrame, TickerA, Some("High"), Some("Low"))
       IN  /\ ex.shown[1].arg.value = 15
           /\ ex.shown[1].arg.date = 22
           /\ ex.shown[2].arg.value = 7
           /\ ex.shown[2].arg.date = 22
    /\ pc = "done" =>
         \A k \in 1..Len(data) :
            LET t == data[k].key
                df == Normalized(data[k].value, t)
            IN  \A p \in Positions("metric", t) :
                   LET m == out[p].arg
                       isHigh == m.label = "All-Time High"
                       cells == IF isHigh THEN Resolved(df, "High", t)
                                ELSE Resolved(df, "Low", t)
                       dates == Col(df, "Date")
                   IN  /\ \A r \in 1..Len(cells) :
                             IF isHigh THEN cells[r] <= m.value
                             ELSE m.value <= cells[r]
                       /\ \E r \in 1..Len(cells) :
                             /\ cells[r] = m.value
                             /\ \A q \in 1..(r - 1) : cells[q] # m.value
                             /\ m.date = dates[r]

\* A pass is over in which the High column of the first ticker held its
\* maximum in its second and third rows, and the extrema were shown.
C9_Witness ==
    /\ pc = "done"
    /\ LET t == data[1].key
           df == Normalized(data[1].value, t)
       IN  /\ Eligible(df, t)
           /\ Resolved(df, "High", t) = <<1, 2, 2>>
           /\ \E p \in Positions("metric", t) :
                 /\ out[p].arg.label = "All-Time High"
                 /\ out[p].arg.value = 2
                 /\ out[p].arg.date = 12

\* The places of `out` that hold a chart.
Charts == {k \in 1..Len(out) : out[k].kind = "plotly_chart"}

\* C10: the warning that ATH / ATL cannot be computed is never shown, and
\* every chart shown carries the two lines ATH and ATL, at the maximum of its
\* own High series and the minimum of its own Low series, the values of the
\* two metrics shown just before it for the same ticker.
C10_ChartHasOwnExtrema ==
    /\ \A k \in 1..Len(out) :
          out[k].kind = "warning" => out[k].arg # "no ATH / ATL"
    /\ \A k \in Charts :
          LET fig == out[k].arg
          IN  /\ fig.hlines = <<[y |-> SeriesMax(fig.high), text |-> "ATH"],
                                [y |-> SeriesMin(fig.low), text |-> "ATL"]>>
              /\ k > 2
              /\ out[k - 2].kind = "metric"
              /\ out[k - 2].ticker = out[k].ticker
              /\ out[k - 2].arg.value = fig.hlines[1].y
              /\ out[k - 1].kind = "metric"
              /\ out[k - 1].ticker = out[k].ticker
              /\ out[k - 1].arg.value = fig.hlines[2].y
    /\ Charts # {} =>
          /\ ath = Some(out[Last(Charts)].arg.hlines[1].y)
          /\ atl = Some(out[Last(Charts)].arg.hlines[2].y)

\* A pass is over that showed the charts of two tickers with different
\* extrema.
C10_Witness ==
    /\ pc = "done"
    /\ \E k, l \in Charts :
          /\ k < l
          /\ out[k].ticker # out[l].ticker
          /\ out[k].arg.hlines[1].y # out[l].arg.hlines[1].y
          /\ out[k].arg.hlines[2].y # out[l].arg.hlines[2].y

=============================================================================
